---- MODULE Spec2Model ----
(***************************************************************************)
(* Parameter estimation of a run-of-river hydropower plant, as implemented *)
(* three times in the repository:                                          *)
(*   - modelchain.Modelchain.__init__          (plant record HPP),         *)
(*   - estimate.missing_parameters             (plant record hpp),         *)
(*   - hydropower_plant.HydropowerPlant.__init__ (plant record plant).     *)
(* All three are applied to the same user-supplied parameter set inp.      *)
(*                                                                         *)
(* Numbers are exact rationals <<numerator, denominator>> in SI units,     *)
(* reduced to lowest terms with a positive denominator.  Python's None and *)
(* NaN are both written <<0, 0>> (no rational has denominator 0).          *)
(***************************************************************************)
EXTENDS Integers, Sequences, FiniteSets, TLC

\* ------------------------------------------------------------------------
\* Exact rational arithmetic
\* ------------------------------------------------------------------------
Abs(x) == IF x < 0 THEN -x ELSE x

RECURSIVE GCD(_, _)
GCD(a, b) == IF b = 0 THEN a ELSE GCD(b, a % b)

Norm(n, d) ==
    LET s == IF d < 0 THEN -1 ELSE 1
        g == GCD(Abs(n), Abs(d))
    IN  <<(s * n) \div g, (s * d) \div g>>

R(n, d) == Norm(n, d)
RInt(i) == <<i, 1>>
None == <<0, 0>>
NaN == <<0, 0>>
\* The float inf, the quotient of a positive numpy float and 0.
Inf == <<1, 0>>
Known(x) == x # None

LCM(a, b) == (a \div GCD(a, b)) * b
\* Sum on the least common denominator; a sum with None or NaN is NaN.
RAdd(a, b) ==
    IF a[2] = 0 \/ b[2] = 0 THEN <<0, 0>>
    ELSE LET l == LCM(a[2], b[2])
         IN  Norm(a[1] * (l \div a[2]) + b[1] * (l \div b[2]), l)
RNeg(a) == <<-a[1], a[2]>>
RSub(a, b) == RAdd(a, RNeg(b))
\* Cross-cancelling product: keeps intermediate values small.
RMul(a, b) ==
    LET g1 == GCD(Abs(a[1]), b[2])
        g2 == GCD(Abs(b[1]), a[2])
    IN  IF a[1] = 0 \/ b[1] = 0 THEN <<0, 1>>
        ELSE <<(a[1] \div g1) * (b[1] \div g2), (a[2] \div g2) * (b[2] \div g1)>>
RInv(a) == IF a[1] < 0 THEN <<-a[2], -a[1]>> ELSE <<a[2], a[1]>>
RDiv(a, b) == RMul(a, RInv(b))
\* Comparisons on the least common denominator.
RLt(a, b) == LET l == LCM(a[2], b[2]) IN a[1] * (l \div a[2]) < b[1] * (l \div b[2])
RLe(a, b) == LET l == LCM(a[2], b[2]) IN a[1] * (l \div a[2]) <= b[1] * (l \div b[2])
RIsZero(a) == a[1] = 0
RMin(a, b) == IF RLe(a, b) THEN a ELSE b
RMax(a, b) == IF RLe(a, b) THEN b ELSE a

\* ------------------------------------------------------------------------
\* Physical constants of the characteristic equation
\*   P_n = h_n * dV_n * g * rho * eta_g_n * eta_t_n
\* ------------------------------------------------------------------------
\* Power is measured in units of g * rho = 9.81 * 1000 = 9810 W, so that the
\* factor 9.81 * 1000 of every formula of the source is the rational 1 and all
\* values stay within TLC's 32-bit integers; heads are in m, flows in m3/s.
g_rho == RInt(1)
eta_t_n == R(9, 10)
eta_g_n == R(95, 100)

\* ------------------------------------------------------------------------
\* Bounds of the model
\* ------------------------------------------------------------------------
\* How many times an estimator may be applied to the same plant object.
MaxRuns == 2

\* ------------------------------------------------------------------------
\* Series helpers (pandas / numpy)
\* ------------------------------------------------------------------------
Remove(s, i) == SubSeq(s, 1, i - 1) \o SubSeq(s, i + 1, Len(s))

\* Series.sort_values(ascending=False).values
RECURSIVE SortDesc(_)
SortDesc(s) ==
    IF s = <<>> THEN <<>>
    ELSE LET i == CHOOSE k \in 1..Len(s) : \A j \in 1..Len(s) : RLe(s[j], s[k])
         IN  <<s[i]>> \o SortDesc(Remove(s, i))

\* Element-wise  values - c
SubEach(s, c) == [k \in 1..Len(s) |-> RSub(s[k], c)]

\* np.linspace(0, 100, num=n)
linspace_0_100(n) ==
    [k \in 1..n |-> IF n = 1 THEN RInt(0) ELSE R(100 * (k - 1), n - 1)]

\* np.arange(1, 100, 99 / n): n points 1, 1 + 99/n, ...
arange_1_100(n) == [k \in 1..n |-> RAdd(RInt(1), R(99 * (k - 1), n))]

\* np.interp(x, xp, fp, left, right) for a non-empty increasing xp.
interp(x, xp, fp, left, right) ==
    LET n == Len(xp)
    IN  IF RLt(x, xp[1]) THEN left
        ELSE IF RLt(xp[n], x) THEN right
        ELSE IF x = xp[n] THEN fp[n]
        ELSE LET i == CHOOSE k \in 1..(n - 1) : RLe(xp[k], x) /\ RLt(x, xp[k + 1])
                 slope == RDiv(RSub(fp[i + 1], fp[i]), RSub(xp[i + 1], xp[i]))
             IN  RAdd(fp[i], RMul(slope, RSub(x, xp[i])))

\* ------------------------------------------------------------------------
\* Historical flow series
\* ------------------------------------------------------------------------
\* A history is [given, dV, m347, m348]: given = FALSE is Python's None; dV
\* lists the series' flow values in time order (kept short); m347 and m348
\* are the 347th and 348th largest values of the 366-day mean annual profile
\* of the series' last ten years, the only values of that profile the
\* residual-flow derivations read.
Hist(vals, a, b) == [given |-> TRUE, dV |-> vals, m347 |-> a, m348 |-> b]
NoHist == [given |-> FALSE, dV |-> <<>>, m347 |-> None, m348 |-> None]
EmptyHist == [given |-> TRUE, dV |-> <<>>, m347 |-> None, m348 |-> None]

\* Histories whose residual flow has few decimals in both tables.
PlainHists ==
    { Hist(<<R(1, 20), R(1, 20), R(1, 20)>>, R(1, 20), R(1, 20)),
      Hist(<<RInt(4), R(73, 10), R(1, 10)>>, R(1, 10), R(1, 10)),
      Hist(<<R(113, 10), R(9, 2), RInt(8)>>, R(9, 2), R(9, 2)),
      Hist(<<RInt(20), RInt(40), R(433, 10)>>, RInt(20), RInt(20)),
      Hist(<<RInt(100), RInt(125), R(1283, 10)>>, RInt(100), RInt(100)) }

\* Histories whose 347-day value lies on a breakpoint of the residual-flow
\* table or gives a residual flow with many decimals.
BreakpointHists ==
    { Hist(<<R(3, 50), RInt(5), RInt(3)>>, R(3, 50), R(3, 50)),
      Hist(<<R(4, 25), RInt(5), RInt(3)>>, R(4, 25), R(4, 25)),
      Hist(<<R(1, 4), RInt(5), RInt(3)>>, R(1, 4), R(1, 4)),
      Hist(<<R(1, 2), RInt(5), RInt(3)>>, R(1, 2), R(1, 2)),
      Hist(<<R(3, 2), RInt(5), RInt(3)>>, R(3, 2), R(3, 2)),
      Hist(<<R(5, 2), RInt(5), RInt(3)>>, R(5, 2), R(5, 2)),
      Hist(<<RInt(10), RInt(15), RInt(30)>>, RInt(10), RInt(10)),
      Hist(<<RInt(60), RInt(65), RInt(90)>>, RInt(60), RInt(60)),
      Hist(<<R(1, 10), RInt(5), R(1, 2)>>, R(1, 2), R(1, 10)) }

Histories == {NoHist, EmptyHist} \cup PlainHists \cup BreakpointHists

\* A step's outcome: ok = FALSE is a Python exception raised by the step.
Ok(v) == [ok |-> TRUE, v |-> v]
Raise == [ok |-> FALSE, v |-> None]

\* ------------------------------------------------------------------------
\* Residual flow
\* ------------------------------------------------------------------------
\* estimate.py: the 0.05 quantile of the 366-value mean profile lies a
\* quarter of the way from its 348th to its 347th largest value
\* (position 0.05 * 365 = 18.25 in ascending order).
dV_347_quantile(hist) ==
    RAdd(hist.m348, RMul(R(1, 4), RSub(hist.m347, hist.m348)))

\* modelchain.py: mean_fdc.loc[347], the 347th largest value of the profile.
dV_347_loc(hist) == hist.m347

\* estimate.py, dV_res_from_dV_hist: the table written to hpp.dV_res.
dV_res_table(dV_347) ==
    IF RLe(dV_347, R(6, 100)) THEN R(5, 100)
    ELSE IF RLe(dV_347, R(16, 100))
        THEN RAdd(R(5, 100), RDiv(RMul(RSub(dV_347, R(6, 100)), RInt(8)), RInt(10)))
    ELSE IF RLe(dV_347, R(5, 10))
        THEN RAdd(R(130, 1000), RDiv(RMul(RSub(dV_347, R(16, 100)), R(44, 10)), RInt(10)))
    ELSE IF RLe(dV_347, R(25, 10))
        THEN RAdd(R(28, 100), RDiv(RMul(RSub(dV_347, R(5, 10)), RInt(31)), RInt(100)))
    ELSE IF RLe(dV_347, RInt(10))
        THEN RAdd(R(9, 10), RDiv(RMul(RSub(dV_347, R(25, 10)), R(213, 10)), RInt(100)))
    ELSE IF RLe(dV_347, RInt(60))
        THEN RAdd(R(25, 10), RDiv(RMul(RSub(dV_347, RInt(10)), RInt(150)), RInt(1000)))
    ELSE RInt(10)

\* modelchain.py, get_dV_rest: the table returned for a given history.
dV_rest_table(dV_347) ==
    IF RLt(dV_347, R(6, 100)) THEN R(5, 100)
    ELSE IF RLt(dV_347, R(16, 100))
        THEN RAdd(R(5, 100), RDiv(RMul(RSub(dV_347, R(6, 10)), RInt(8)), RInt(10)))
    ELSE IF RLt(dV_347, R(5, 10))
        THEN RAdd(R(130, 1000), RDiv(RMul(RSub(dV_347, R(5, 10)), R(44, 10)), RInt(10)))
    ELSE IF RLt(dV_347, R(25, 10))
        THEN RAdd(R(28, 100), RDiv(RMul(RSub(dV_347, R(13, 100)), RInt(31)), RInt(100)))
    ELSE IF RLt(dV_347, RInt(10))
        THEN RAdd(R(9, 10), RDiv(RMul(RSub(dV_347, R(25, 10)), R(213, 10)), RInt(100)))
    ELSE IF RLt(dV_347, RInt(60))
        THEN RAdd(R(25, 10), RDiv(RMul(RSub(dV_347, RInt(10)), RInt(150)), RInt(1000)))
    ELSE RInt(10)

\* ------------------------------------------------------------------------
\* Geometry and turbine classification
\* ------------------------------------------------------------------------
\* Points are <<x, y>> = <<flow per turbine, head>>.
ccw(A, B, C) ==
    RLt(RMul(RSub(B[2], A[2]), RSub(C[1], A[1])),
        RMul(RSub(C[2], A[2]), RSub(B[1], A[1])))

\* Variant of intersec that also counts the end C of the segment when it lies
\* on the half-line.
intersec_closed(A, B, C) ==
    IF B = C THEN FALSE
    ELSE IF B[2] = C[2] THEN FALSE
    ELSE IF A[2] = B[2] /\ RLe(A[1], B[1]) THEN TRUE
    ELSE IF A[2] = C[2] THEN RLe(A[1], C[1])
    ELSE LET D == <<RAdd(RMax(B[1], C[1]), RInt(1)), A[2]>>
         IN  ccw(A, C, B) # ccw(D, C, B) /\ ccw(A, D, C) # ccw(A, D, B)

intersec(A, B, C) ==
    IF B = C THEN FALSE
    ELSE IF B[2] = C[2] THEN FALSE
    ELSE IF A[2] = B[2] /\ RLe(A[1], B[1]) THEN TRUE
    ELSE IF A[2] = C[2] THEN FALSE
    ELSE LET D == <<RAdd(RMax(B[1], C[1]), RInt(1)), A[2]>>
         IN  ccw(A, C, B) # ccw(D, C, B) /\ ccw(A, D, C) # ccw(A, D, B)

\* The reference table charac_diagrams.csv as the loaders restructure it:
\* one polygon per turbine type, in column order, every polygon stored in
\* the same number of rows, unused rows holding NaN.
\* The file itself is not among the sources; two example polygons stand for
\* its contents.
NaNPoint == <<NaN, NaN>>
Pt(x, y) == <<RInt(x), RInt(y)>>
charac_diagrams ==
    << [type |-> "Kaplan",
        rows |-> <<Pt(1, 1), Pt(10, 1), Pt(10, 4), Pt(1, 4), NaNPoint>>],
       [type |-> "Francis",
        rows |-> <<Pt(3, 1), Pt(15, 3), Pt(15, 8), Pt(3, 8), Pt(2, 5)>>] >>

IsNaNPoint(p) == p[1] = NaN \/ p[2] = NaN

\* "if intersec(...): intersections = intersections + 1"
add_if(crossed, intersections) == IF crossed THEN intersections + 1 ELSE intersections

\* The inner loop "for i in charac_diagrams.index" from row i on, with the
\* count so far; the break after the first NaN successor ends it.
RECURSIVE count_intersections(_, _, _, _)
count_intersections(A, rows, i, intersections) ==
    IF i > Len(rows) THEN intersections
    ELSE IF i = Len(rows) THEN add_if(intersec(A, rows[i], rows[1]), intersections)
    ELSE IF IsNaNPoint(rows[i + 1])
        THEN add_if(intersec(A, rows[i], rows[1]), intersections)
    ELSE count_intersections(A, rows, i + 1,
             add_if(intersec(A, rows[i], rows[i + 1]), intersections))

\* Variant of tested_edges whose loop goes on after the first NaN successor.
RECURSIVE tested_edges_no_break(_, _)
tested_edges_no_break(rows, i) ==
    IF i > Len(rows) THEN <<>>
    ELSE IF i = Len(rows) THEN << <<rows[i], rows[1]>> >>
    ELSE IF IsNaNPoint(rows[i + 1])
        THEN << <<rows[i], rows[1]>> >> \o tested_edges_no_break(rows, i + 1)
    ELSE << <<rows[i], rows[i + 1]>> >> \o tested_edges_no_break(rows, i + 1)

\* The segments (B, C) that the inner loop hands to intersec from row i on,
\* in the order of the calls.
RECURSIVE tested_edges(_, _)
tested_edges(rows, i) ==
    IF i > Len(rows) THEN <<>>
    ELSE IF i = Len(rows) THEN << <<rows[i], rows[1]>> >>
    ELSE IF IsNaNPoint(rows[i + 1])
        THEN << <<rows[i], rows[1]>> >>
    ELSE << <<rows[i], rows[i + 1]>> >> \o tested_edges(rows, i + 1)

\* The outer loop: the first type, in table order, with an odd count; "None"
\* when no polygon has one.
RECURSIVE first_odd_type(_, _, _)
first_odd_type(A, table, t) ==
    IF t > Len(table) THEN "None"
    ELSE IF count_intersections(A, table[t].rows, 1, 0) % 2 # 0 THEN table[t].type
    ELSE first_odd_type(A, table, t + 1)

\* ------------------------------------------------------------------------
\* modelchain.py: class Modelchain
\* ------------------------------------------------------------------------
\* The plant object handed to Modelchain: fields dV_rest, dV_n, P_n, h_n,
\* turb_type ("None" is Python's None), turb_num, power_output.

\* Variant of the feasibility test that asks for a history AND a nominal flow
\* where the code accepts either.
check_feasibility_both(P, dV_hist) ==
    (Known(P.h_n) /\ Known(P.P_n))
    \/ ((Known(P.h_n) \/ Known(P.P_n)) /\ (dV_hist.given /\ Known(P.dV_n)))

check_feasibility(P, dV_hist) ==
    (Known(P.h_n) /\ Known(P.P_n))
    \/ ((Known(P.h_n) \/ Known(P.P_n)) /\ (dV_hist.given \/ Known(P.dV_n)))

get_dV_rest(dV_hist) ==
    IF ~dV_hist.given THEN Ok(RInt(0))
    ELSE IF dV_hist.dV = <<>> THEN Raise
    ELSE Ok(dV_rest_table(dV_347_loc(dV_hist)))

get_dV_n(P, dV_hist) ==
    IF Known(P.h_n) /\ Known(P.P_n)
    THEN LET den == RMul(RMul(RMul(P.h_n, g_rho), R(9, 10)), R(95, 100))
         IN  IF RIsZero(den) THEN Raise ELSE Ok(RDiv(P.P_n, den))
    ELSE IF ~dV_hist.given \/ dV_hist.dV = <<>> \/ ~Known(P.dV_rest) THEN Raise
    ELSE LET fdc == SubEach(SortDesc(dV_hist.dV), P.dV_rest)
         IN  Ok(interp(RInt(20), arange_1_100(Len(dV_hist.dV)), fdc,
                       fdc[1], fdc[Len(fdc)]))

get_P_n(P) ==
    IF ~Known(P.h_n) \/ ~Known(P.dV_n) THEN Raise
    ELSE Ok(RMul(RMul(RMul(RMul(P.h_n, P.dV_n), g_rho), R(9, 10)), R(95, 100)))

\* A nominal flow of 0 comes from np.interp and is a numpy float, so that
\* the division gives inf (with a warning) where Python floats would raise.
get_h_n(P) ==
    IF ~Known(P.P_n) \/ ~Known(P.dV_n) THEN Raise
    ELSE LET den == RMul(RMul(RMul(P.dV_n, g_rho), R(9, 10)), R(95, 100))
         IN  IF RIsZero(den) THEN Ok(Inf) ELSE Ok(RDiv(P.P_n, den))

\* With a head of inf every comparison of ccw is False (inf > inf, or a
\* NaN from inf * 0), no segment is crossed and no polygon has an odd count.
get_turb_type(P) ==
    IF ~Known(P.dV_n) \/ ~Known(P.h_n) THEN Raise
    ELSE IF P.h_n = Inf THEN Ok("dummy")
    ELSE LET A == <<RDiv(P.dV_n, RInt(P.turb_num)), P.h_n>>
             t == first_odd_type(A, charac_diagrams, 1)
         IN  Ok(IF t = "None" THEN "dummy" ELSE t)

\* __init__ threads st = [HPP, pc] through its guarded assignments
\* "if HPP.f is None: HPP.f = self.get_f()": pc = "running" until a getter
\* raises, which leaves the plant as the earlier assignments made it.
mc_assign(st, f, r) ==
    IF ~r.ok THEN [st EXCEPT !.pc = "raised"]
    ELSE [st EXCEPT !.HPP = [st.HPP EXCEPT ![f] = r.v]]

mc_set_dV_rest(st, dV_hist) ==
    IF st.pc = "running" /\ st.HPP.dV_rest = None
    THEN mc_assign(st, "dV_rest", get_dV_rest(dV_hist)) ELSE st

\* Variant of the nominal-flow step that also divides a known nominal flow
\* among the turbines of the plant.
mc_set_dV_n_per_turbine(st, dV_hist) ==
    IF st.pc # "running" THEN st
    ELSE IF st.HPP.dV_n = None
    THEN mc_assign(st, "dV_n", get_dV_n(st.HPP, dV_hist))
    ELSE mc_assign(st, "dV_n", Ok(RDiv(st.HPP.dV_n, RInt(st.HPP.turb_num))))

mc_set_dV_n(st, dV_hist) ==
    IF st.pc = "running" /\ st.HPP.dV_n = None
    THEN mc_assign(st, "dV_n", get_dV_n(st.HPP, dV_hist)) ELSE st

mc_set_P_n(st) ==
    IF st.pc = "running" /\ st.HPP.P_n = None
    THEN mc_assign(st, "P_n", get_P_n(st.HPP)) ELSE st

mc_set_h_n(st) ==
    IF st.pc = "running" /\ st.HPP.h_n = None
    THEN mc_assign(st, "h_n", get_h_n(st.HPP)) ELSE st

mc_set_turb_type(st) ==
    IF st.pc = "running" /\ st.HPP.turb_type = "None"
    THEN mc_assign(st, "turb_type", get_turb_type(st.HPP)) ELSE st

mc_finish(st) == IF st.pc = "running" THEN [st EXCEPT !.pc = "resolved"] ELSE st

\* Variant of the constructor that logs an infeasible plant and returns
\* instead of exiting.
Modelchain_init_no_exit(P, dV_hist) ==
    IF ~check_feasibility(P, dV_hist) THEN [HPP |-> P, pc |-> "resolved"]
    ELSE mc_finish(mc_set_turb_type(mc_set_h_n(mc_set_P_n(
             mc_set_dV_n(mc_set_dV_rest([HPP |-> P, pc |-> "running"], dV_hist),
                         dV_hist)))))

\* Variant of the constructor that derives the residual flow before it tests
\* feasibility.
Modelchain_init_derive_first(P, dV_hist) ==
    IF ~check_feasibility(P, dV_hist)
    THEN [mc_set_dV_rest([HPP |-> P, pc |-> "running"], dV_hist) EXCEPT !.pc = "exit"]
    ELSE mc_finish(mc_set_turb_type(mc_set_h_n(mc_set_P_n(
             mc_set_dV_n(mc_set_dV_rest([HPP |-> P, pc |-> "running"], dV_hist),
                         dV_hist)))))

Modelchain_init(P, dV_hist) ==
    IF ~check_feasibility(P, dV_hist) THEN [HPP |-> P, pc |-> "exit"]
    ELSE mc_finish(mc_set_turb_type(mc_set_h_n(mc_set_P_n(
             mc_set_dV_n(mc_set_dV_rest([HPP |-> P, pc |-> "running"], dV_hist),
                         dV_hist)))))

\* ------------------------------------------------------------------------
\* estimate.py
\* ------------------------------------------------------------------------
\* The plant object handed to missing_parameters: fields dV_res, dV_n, P_n,
\* h_n, turb_type, turb_num and its own attribute dV_hist.

can_estimate(P, dV_hist) ==
    (Known(P.h_n) /\ Known(P.P_n))
    \/ ((Known(P.h_n) \/ Known(P.P_n)) /\ (dV_hist.given \/ Known(P.dV_n)))

\* Each derivation maps a plant to [hpp, ok]: the plant as the function left
\* it, and whether it returned (ok) or raised.
Returned(P) == [hpp |-> P, ok |-> TRUE]
Raised(P) == [hpp |-> P, ok |-> FALSE]

dV_res_from_dV_hist(P, dV_hist) ==
    IF ~dV_hist.given THEN Returned(P)
    ELSE IF dV_hist.dV = <<>> THEN Raised(P)
    ELSE Returned([P EXCEPT !.dV_res = dV_res_table(dV_347_quantile(dV_hist))])

dV_n_from_dV_hist(P, dV_hist) ==
    IF Known(P.h_n) /\ Known(P.P_n)
    THEN LET den == RMul(RMul(RMul(P.h_n, g_rho), R(9, 10)), R(95, 100))
         IN  IF RIsZero(den) THEN Raised(P)
             ELSE Returned([P EXCEPT !.dV_n = RDiv(P.P_n, den)])
    ELSE IF ~P.dV_hist.given \/ P.dV_hist.dV = <<>> \/ ~Known(P.dV_res) THEN Raised(P)
    ELSE LET fdc == SubEach(SortDesc(P.dV_hist.dV), P.dV_res)
         IN  Returned([P EXCEPT !.dV_n =
                 interp(RInt(20), linspace_0_100(Len(P.dV_hist.dV)), fdc,
                        fdc[1], fdc[Len(fdc)])])

P_n_or_h_n_from_characteristic_equation_at_nominal_load(P) ==
    \* assert (h_n is not None or P_n is not None) and dV_n is None
    IF ~((Known(P.h_n) \/ Known(P.P_n)) /\ P.dV_n = None) THEN Raised(P)
    ELSE IF P.h_n = None
        THEN LET den == RMul(RMul(RMul(P.dV_n, g_rho), eta_g_n), eta_t_n)
             IN  IF ~Known(P.P_n) \/ ~Known(P.dV_n) \/ RIsZero(den) THEN Raised(P)
                 ELSE Returned([P EXCEPT !.h_n = RDiv(P.P_n, den)])
    ELSE IF P.P_n = None
        THEN IF ~Known(P.dV_n) THEN Raised(P)
             ELSE Returned([P EXCEPT !.P_n =
                     RMul(RMul(RMul(RMul(P.h_n, P.dV_n), g_rho), eta_g_n), eta_t_n)])
    ELSE Returned(P)

turb_type_from_phase_diagram(P) ==
    IF ~Known(P.dV_n) \/ ~Known(P.h_n) THEN Raised(P)
    ELSE LET A == <<RDiv(P.dV_n, RInt(P.turb_num)), P.h_n>>
             t == first_odd_type(A, charac_diagrams, 1)
         IN  Returned([P EXCEPT !.turb_type = IF t = "None" THEN "dummy" ELSE t])

\* "if hpp.P_n is None != hpp.h_n is None": a chained comparison,
\* (P_n is None) and (None != h_n) and (h_n is None).
P_n_xor_h_n_missing(P) == P.P_n = None /\ None # P.h_n /\ P.h_n = None

\* missing_parameters threads st = [hpp, ok] through its guarded calls; a
\* call is made only if the earlier ones returned.
mp_dV_res(st) ==
    IF st.ok /\ st.hpp.dV_res = None
    THEN dV_res_from_dV_hist(st.hpp, st.hpp.dV_hist) ELSE st

mp_dV_n(st) ==
    IF st.ok /\ st.hpp.dV_n = None
    THEN dV_n_from_dV_hist(st.hpp, st.hpp.dV_hist) ELSE st

mp_P_n_or_h_n(st) ==
    IF st.ok /\ P_n_xor_h_n_missing(st.hpp)
    THEN P_n_or_h_n_from_characteristic_equation_at_nominal_load(st.hpp) ELSE st

mp_turb_type(st) ==
    IF st.ok /\ st.hpp.turb_type = "None"
    THEN turb_type_from_phase_diagram(st.hpp) ELSE st

mp_finish(st) == [hpp |-> st.hpp, pc |-> IF st.ok THEN "resolved" ELSE "raised"]

missing_parameters(P, dV_hist) ==
    IF ~can_estimate(P, dV_hist) THEN [hpp |-> P, pc |-> "insufficient"]
    ELSE mp_finish(mp_turb_type(mp_P_n_or_h_n(mp_dV_n(mp_dV_res(Returned(P))))))

\* ------------------------------------------------------------------------
\* hydropower_plant.py: class HydropowerPlant
\* ------------------------------------------------------------------------
\* The reference table turbine_type.csv: one row of efficiency parameters
\* per turbine type.  The file itself is not among the sources; two example
\* rows stand for its contents.
Params(t, lmin, a1, a2, a3, eta) ==
    [given |-> TRUE, type |-> t, load_min |-> lmin,
     a1 |-> a1, a2 |-> a2, a3 |-> a3, eta_n |-> eta]
NoParams ==
    [given |-> FALSE, type |-> "None", load_min |-> None,
     a1 |-> None, a2 |-> None, a3 |-> None, eta_n |-> None]
turbine_type_csv ==
    << Params("Kaplan", R(1, 10), R(1, 10), RInt(1), R(1, 20), R(9, 10)),
       Params("Francis", R(1, 5), R(1, 5), R(4, 5), R(1, 10), R(22, 25)) >>

\* An explicit efficiency curve: loads and the efficiencies at them.
Curve(l, e) == [given |-> TRUE, load |-> l, eta |-> e]
NoCurve == [given |-> FALSE, load |-> <<>>, eta |-> <<>>]
\* pd.Series([0, 0.9, 0.9], index=[0, 0.2, 1])
DefaultCurve == Curve(<<RInt(0), R(1, 5), RInt(1)>>, <<RInt(0), R(9, 10), R(9, 10)>>)
UserCurve == Curve(<<RInt(0), R(1, 2), RInt(1)>>, <<RInt(0), R(4, 5), R(9, 10)>>)
UserParams == Params("Kaplan", R(1, 10), R(1, 10), RInt(1), R(1, 20), R(9, 10))

\* Each method maps a plant to [plant, pc]: "running" when it returned,
\* "exit" on sys.exit(), "raised" on an exception.
hp_go(p) == [plant |-> p, pc |-> "running"]
hp_stop(p, why) == [plant |-> p, pc |-> why]

\* files: the flow values of the files picked in the dialog (<<>>: none
\* picked; the model's files hold at least two values).
get_nominal_flow(p, files) ==
    IF Known(p.H_n) /\ Known(p.P_n)
    THEN LET den == RMul(RMul(RMul(g_rho, p.H_n), p.eta_gen), R(9, 10))
         IN  IF RIsZero(den) THEN hp_stop(p, "raised")
             ELSE hp_go([p EXCEPT !.Q_n = RDiv(p.P_n, den)])
    ELSE IF Len(files) = 0 THEN hp_stop(p, "exit")
    ELSE IF p.Q_n = None
        THEN LET n == Len(files)
                 jdl_index == [k \in 1..n |-> RMul(R(k - 1, n - 1), RInt(100))]
                 jdl == SortDesc(files)
             IN  hp_go([p EXCEPT !.Q_n =
                     interp(RInt(30), jdl_index, jdl, RInt(0), RInt(0))])
    ELSE hp_go(p)

get_nominal_head(p) ==
    IF ~Known(p.P_n) \/ ~Known(p.Q_n) THEN hp_stop(p, "raised")
    ELSE LET den == RMul(RMul(RMul(g_rho, p.Q_n), p.eta_gen), R(9, 10))
         IN  IF RIsZero(den) THEN hp_stop(p, "raised")
             ELSE hp_go([p EXCEPT !.H_n = RDiv(p.P_n, den)])

fetch_turbine_type(p) ==
    IF ~Known(p.Q_n) \/ ~Known(p.H_n) THEN hp_stop(p, "raised")
    ELSE LET A == <<RDiv(p.Q_n, RInt(p.turb_num)), p.H_n>>
             t == first_odd_type(A, charac_diagrams, 1)
         IN  IF t = "None" THEN hp_stop(p, "exit")
             ELSE hp_go([p EXCEPT !.turbine_type = t])

\* Variant of fetch_turbine_data that falls back to the first row of the
\* table when the type has no row.
fetch_turbine_data_first_row(p) ==
    LET hits == {k \in 1..Len(turbine_type_csv) : turbine_type_csv[k].type = p.turbine_type}
    IN  IF hits = {} THEN hp_go([p EXCEPT !.turbine_parameters = turbine_type_csv[1]])
        ELSE hp_go([p EXCEPT !.turbine_parameters =
                 turbine_type_csv[CHOOSE k \in hits : \A j \in hits : k <= j]])

fetch_turbine_data(p) ==
    LET hits == {k \in 1..Len(turbine_type_csv) : turbine_type_csv[k].type = p.turbine_type}
    IN  IF hits = {} THEN hp_stop(p, "exit")
        ELSE hp_go([p EXCEPT !.turbine_parameters =
                 turbine_type_csv[CHOOSE k \in hits : \A j \in hits : k <= j]])

\* __init__ threads st = [plant, pc] through its guarded calls; a call is
\* made only if the earlier ones returned.
hp_nominal_flow(st, files) ==
    IF st.pc = "running" /\ (st.plant.Q_n = None \/ st.plant.W_n = None)
    THEN get_nominal_flow(st.plant, files) ELSE st

hp_nominal_head(st) ==
    IF st.pc = "running" /\ st.plant.H_n = None
    THEN get_nominal_head(st.plant) ELSE st

hp_turbine_type(st) ==
    IF st.pc = "running" /\ st.plant.turbine_type = "None"
    THEN fetch_turbine_type(st.plant) ELSE st

hp_efficiency(st) ==
    IF st.pc = "running" /\ ~st.plant.eta_turb_values.given
                         /\ ~st.plant.turbine_parameters.given
    THEN IF st.plant.turbine_type = "None"
         THEN hp_go([st.plant EXCEPT !.eta_turb_values = DefaultCurve])
         ELSE fetch_turbine_data(st.plant)
    ELSE st

hp_finish(st) == IF st.pc = "running" THEN [st EXCEPT !.pc = "constructed"] ELSE st

HydropowerPlant_init(P_n, eta_gen, turb_num, H_n, W_n, Q_rest, Q_n, turbine_type, eta_turb_values, turbine_parameters, files) ==
    hp_finish(hp_efficiency(hp_turbine_type(hp_nominal_head(hp_nominal_flow(
        hp_go([turbine_type |-> turbine_type, Q_n |-> Q_n, H_n |-> H_n,
               W_n |-> W_n, Q_rest |-> Q_rest,
               eta_turb_values |-> eta_turb_values,
               turbine_parameters |-> turbine_parameters,
               eta_gen |-> eta_gen, turb_num |-> turb_num, P_n |-> P_n,
               power_output |-> None]),
        files)))))

\* ------------------------------------------------------------------------
\* State
\* ------------------------------------------------------------------------
VARIABLES
    inp,        \* the parameters and history the user supplies
    HPP,        \* the plant object handed to Modelchain
    mc_pc,      \* "new", "resolved", "exit" (sys.exit) or "raised"
    mc_runs,    \* how often Modelchain(HPP, ...) was constructed
    hpp,        \* the plant object handed to estimate.missing_parameters
    mp_pc,      \* "new", "resolved", "insufficient" (RuntimeError) or "raised"
    mp_runs,    \* how often missing_parameters(hpp, ...) was called
    plant,      \* the HydropowerPlant object
    hp_pc,      \* "new", "constructed", "exit" or "raised"
    hp_args,    \* the arguments HydropowerPlant(...) was called with
    tab,        \* both residual-flow tables evaluated around a breakpoint
    probe       \* arguments and results of one call of a function of the library

vars == <<inp, HPP, mc_pc, mc_runs, hpp, mp_pc, mp_runs, plant, hp_pc, hp_args, tab, probe>>

\* Everything but the probe.
plants == <<inp, HPP, mc_pc, mc_runs, hpp, mp_pc, mp_runs, plant, hp_pc, hp_args, tab>>

\* The values a user supplies.  Powers are 2 * 4 * 0.9 * 0.95 and
\* 5 * 12 * 0.9 * 0.95 units of 9810 W.
Heads == {None, RInt(2), RInt(5)}
Powers == {None, R(171, 25), R(513, 10)}
Flows == {None, RInt(4), RInt(12)}
RestFlows == {None, R(1, 2)}
TurbTypes == {"None", "Kaplan"}
TurbNums == {1, 2}
WaterLevels == {None, RInt(2)}
GenEffs == {R(9, 10), R(95, 100)}
Files == {<<>>, <<RInt(4), R(73, 10), R(1, 10)>>}

Inputs ==
    { i \in [dV_rest : RestFlows, dV_n : Flows, P_n : Powers, h_n : Heads,
             turb_type : TurbTypes, turb_num : TurbNums, dV_hist : Histories] :
        \* keeps every derived value within 32-bit integers
        i.dV_hist \in BreakpointHists => Known(i.dV_n) }

NoPlant ==
    [turbine_type |-> "None", Q_n |-> None, H_n |-> None, W_n |-> None,
     Q_rest |-> None, eta_turb_values |-> NoCurve,
     turbine_parameters |-> NoParams, eta_gen |-> None, turb_num |-> 1,
     P_n |-> None, power_output |-> None]

NoArgs == [W_n |-> None, eta_gen |-> None, eta_turb_values |-> NoCurve,
           turbine_parameters |-> NoParams, files |-> <<>>]

NoTab == [x |-> None, d |-> None, res_below |-> None, res_above |-> None,
          rest_below |-> None, rest_above |-> None]

NoProbe == [kind |-> "none"]

InitFrom(I) ==
    /\ inp \in I
    /\ HPP = [dV_rest |-> inp.dV_rest, dV_n |-> inp.dV_n, P_n |-> inp.P_n,
              h_n |-> inp.h_n, turb_type |-> inp.turb_type,
              turb_num |-> inp.turb_num, power_output |-> None]
    /\ mc_pc = "new"
    /\ mc_runs = 0
    /\ \E own \in {inp.dV_hist, NoHist} :
          hpp = [dV_res |-> inp.dV_rest, dV_n |-> inp.dV_n, P_n |-> inp.P_n,
                 h_n |-> inp.h_n, turb_type |-> inp.turb_type,
                 turb_num |-> inp.turb_num, dV_hist |-> own]
    /\ mp_pc = "new"
    /\ mp_runs = 0
    /\ plant = NoPlant
    /\ hp_pc = "new"
    /\ hp_args = NoArgs
    /\ tab = NoTab
    /\ probe = NoProbe

Init == InitFrom(Inputs)

\* Modelchain(HPP, dV, dV_hist): on a new plant, or again on a resolved one.
NewModelchain ==
    /\ mc_pc \in {"new", "resolved"}
    /\ mc_runs < MaxRuns
    /\ LET r == Modelchain_init(HPP, inp.dV_hist)
       IN  HPP' = r.HPP /\ mc_pc' = r.pc
    /\ mc_runs' = mc_runs + 1
    /\ UNCHANGED <<inp, hpp, mp_pc, mp_runs, plant, hp_pc, hp_args, tab, probe>>

\* missing_parameters(hpp, dV_hist): on a new plant, or again on a resolved one.
CallMissingParameters ==
    /\ mp_pc \in {"new", "resolved"}
    /\ mp_runs < MaxRuns
    /\ LET r == missing_parameters(hpp, inp.dV_hist)
       IN  hpp' = r.hpp /\ mp_pc' = r.pc
    /\ mp_runs' = mp_runs + 1
    /\ UNCHANGED <<inp, HPP, mc_pc, mc_runs, plant, hp_pc, hp_args, tab, probe>>

Next == NewModelchain \/ CallMissingParameters

Spec == Init /\ [][Next]_vars

\* HydropowerPlant(P_n, eta_gen, turb_num, H_n, W_n, Q_rest, Q_n, turbine_type,
\* eta_turb_values, turbine_parameters), with the files picked in its dialog.
NewHydropowerPlant ==
    /\ hp_pc = "new"
    /\ \E W_n \in WaterLevels, eta_gen \in GenEffs,
          eta_turb_values \in {NoCurve, UserCurve},
          turbine_parameters \in {NoParams, UserParams}, files \in Files :
          LET r == HydropowerPlant_init(inp.P_n, eta_gen, inp.turb_num, inp.h_n,
                       W_n, inp.dV_rest, inp.dV_n, inp.turb_type,
                       eta_turb_values, turbine_parameters, files)
          IN  /\ plant' = r.plant
              /\ hp_pc' = r.pc
              /\ hp_args' = [W_n |-> W_n, eta_gen |-> eta_gen,
                             eta_turb_values |-> eta_turb_values,
                             turbine_parameters |-> turbine_parameters,
                             files |-> files]
    /\ UNCHANGED <<inp, HPP, mc_pc, mc_runs, hpp, mp_pc, mp_runs, tab, probe>>

\* The plant class is constructed without a history.
InitPlant == InitFrom({i \in Inputs : i.dV_hist = NoHist})

NextPlant == NewHydropowerPlant

SpecPlant == InitPlant /\ [][NextPlant]_vars

\* The six breakpoints of the residual-flow tables and the distances from a
\* breakpoint, in steps of 1/10000 m3/s, at which the tables are evaluated.
Breakpoints == {R(6, 100), R(16, 100), R(1, 2), R(5, 2), RInt(10), RInt(60)}

MaxStep == 20

\* The residual-flow tables of estimate.dV_res_from_dV_hist and of
\* Modelchain.get_dV_rest applied to 347-day values x - d and x + d.
EvalTables ==
    /\ tab = NoTab
    /\ \E x \in Breakpoints, k \in 1..MaxStep :
          LET d == R(k, 10000)
          IN  tab' = [x |-> x, d |-> d,
                      res_below |-> dV_res_table(RSub(x, d)),
                      res_above |-> dV_res_table(RAdd(x, d)),
                      rest_below |-> dV_rest_table(RSub(x, d)),
                      rest_above |-> dV_rest_table(RAdd(x, d))]
    /\ UNCHANGED <<inp, HPP, mc_pc, mc_runs, hpp, mp_pc, mp_runs, plant, hp_pc,
                   hp_args, probe>>

InitTable == InitFrom({i \in Inputs : i.dV_hist = NoHist /\ i.dV_rest = None
                                      /\ i.turb_type = "None" /\ i.turb_num = 1})

NextTable == EvalTables

SpecTable == InitTable /\ [][NextTable]_vars

\* A plant nobody has described yet: the start of every single-call
\* specification below.
InitProbe ==
    InitFrom({i \in Inputs : i.dV_hist = NoHist /\ i.dV_rest = None
                             /\ i.turb_type = "None" /\ i.turb_num = 1
                             /\ i.h_n = None /\ i.P_n = None /\ i.dV_n = None})

\* Heads and nominal flows k/2, k = 1..MaxHalves, for the characteristic
\* equation.
MaxHalves == 12

Halves == {R(k, 2) : k \in 1..MaxHalves}

BarePlant(h_n, P_n, dV_n) ==
    [dV_rest |-> RInt(0), dV_n |-> dV_n, P_n |-> P_n, h_n |-> h_n,
     turb_type |-> "None", turb_num |-> 1, power_output |-> None]

Bare_hpp(h_n, P_n, dV_n) ==
    [dV_res |-> RInt(0), dV_n |-> dV_n, P_n |-> P_n, h_n |-> h_n,
     turb_type |-> "None", turb_num |-> 1, dV_hist |-> NoHist]

\* get_P_n on (h_n, dV_n), then get_h_n and get_dV_n on the power it returned.
mc_h_n_back(P, h_n, dV_n) ==
    IF P.ok THEN get_h_n(BarePlant(None, P.v, dV_n)) ELSE Raise

mc_dV_n_back(P, h_n, dV_n) ==
    IF P.ok THEN get_dV_n(BarePlant(h_n, P.v, None), NoHist) ELSE Raise

\* The same with estimate.py: the power from the characteristic equation,
\* then the head from it.
mp_h_n_back(r, dV_n) ==
    IF r.ok
    THEN P_n_or_h_n_from_characteristic_equation_at_nominal_load(
             Bare_hpp(None, r.hpp.P_n, dV_n))
    ELSE r

CharacteristicRoundTrip ==
    /\ probe = NoProbe
    /\ \E h_n \in Halves, dV_n \in Halves :
          probe' = [kind |-> "round trip", h_n |-> h_n, dV_n |-> dV_n,
                    mc_h_n |-> mc_h_n_back(get_P_n(BarePlant(h_n, None, dV_n)),
                                           h_n, dV_n),
                    mc_dV_n |-> mc_dV_n_back(get_P_n(BarePlant(h_n, None, dV_n)),
                                             h_n, dV_n),
                    mp_h_n |-> mp_h_n_back(
                        P_n_or_h_n_from_characteristic_equation_at_nominal_load(
                            Bare_hpp(h_n, None, dV_n)), dV_n)]
    /\ UNCHANGED plants

NextRoundTrip == CharacteristicRoundTrip

SpecRoundTrip == InitProbe /\ [][NextRoundTrip]_vars

\* Polygons in the layout of the reference table (vertex rows, NaN rows
\* after the last vertex of a shorter polygon), each with a cover by
\* triangles that the properties use to tell inside from outside.
Polygon(rows, pieces) == [rows |-> rows, pieces |-> pieces]

TestPolygons ==
    << \* a rectangle with horizontal edges
       Polygon(<<Pt(1, 1), Pt(3, 1), Pt(3, 3), Pt(1, 3)>>,
               {<<Pt(1, 1), Pt(3, 1), Pt(3, 3)>>, <<Pt(1, 1), Pt(3, 3), Pt(1, 3)>>}),
       \* a triangle on a horizontal base, stored with a NaN row
       Polygon(<<Pt(0, 0), Pt(4, 0), Pt(2, 2), NaNPoint>>,
               {<<Pt(0, 0), Pt(4, 0), Pt(2, 2)>>}),
       \* a diamond without horizontal edges
       Polygon(<<Pt(3, 1), Pt(4, 2), Pt(3, 3), Pt(2, 2)>>,
               {<<Pt(3, 1), Pt(4, 2), Pt(3, 3)>>, <<Pt(3, 1), Pt(3, 3), Pt(2, 2)>>}),
       \* a square with a notch cut into its upper side
       Polygon(<<Pt(0, 0), Pt(4, 0), Pt(4, 4), Pt(2, 2), Pt(0, 4)>>,
               {<<Pt(0, 0), Pt(4, 0), Pt(2, 2)>>, <<Pt(4, 0), Pt(4, 4), Pt(2, 2)>>,
                <<Pt(0, 0), Pt(2, 2), Pt(0, 4)>>}),
       \* a slanted quadrilateral
       Polygon(<<Pt(0, 1), Pt(3, 0), Pt(4, 3), Pt(1, 4)>>,
               {<<Pt(0, 1), Pt(3, 0), Pt(4, 3)>>, <<Pt(0, 1), Pt(4, 3), Pt(1, 4)>>}) >>

\* Operating points (x, y) with 0 <= x, y <= MaxCoord.
MaxCoord == 4

GridPoints == {Pt(x, y) : x \in 0..MaxCoord, y \in 0..MaxCoord}

\* The crossing count of one polygon at one operating point.
CountCrossings ==
    /\ probe = NoProbe
    /\ \E k \in 1..Len(TestPolygons), A \in GridPoints :
          probe' = [kind |-> "count", polygon |-> k, A |-> A,
                    intersections |->
                        count_intersections(A, TestPolygons[k].rows, 1, 0)]
    /\ UNCHANGED plants

NextPolygon == CountCrossings

SpecPolygon == InitProbe /\ [][NextPolygon]_vars

\* Points (x, y) with 0 <= x, y <= MaxRay for single calls of intersec.
MaxRay == 2

RayPoints == {Pt(x, y) : x \in 0..MaxRay, y \in 0..MaxRay}

\* intersec(A, B, C) for a half-line from A and a segment from B to C.
EvalIntersec ==
    /\ probe = NoProbe
    /\ \E A \in RayPoints, B \in RayPoints, C \in RayPoints :
          probe' = [kind |-> "intersec", A |-> A, B |-> B, C |-> C,
                    crossed |-> intersec(A, B, C)]
    /\ UNCHANGED plants

\* The operating point on the vertex V of a polygon: the calls of intersec
\* for the edge from U that ends in V and the edge to W that starts in V,
\* counted as the loop over the polygon counts them.
EvalVertex ==
    /\ probe = NoProbe
    /\ \E U \in RayPoints, V \in RayPoints, W \in RayPoints :
          /\ U # V /\ V # W
          /\ probe' = [kind |-> "vertex", U |-> U, V |-> V, W |-> W,
                       intersections |->
                           add_if(intersec(V, V, W), add_if(intersec(V, U, V), 0))]
    /\ UNCHANGED plants

NextRay == EvalIntersec \/ EvalVertex

SpecRay == InitProbe /\ [][NextRay]_vars

\* ------------------------------------------------------------------------
\* power_output.py
\* ------------------------------------------------------------------------
\* The density argument rho in units of 1000 kg/m3 and the gravity argument
\* g in units of 9.81 m/s2, so that powers are in units of 9810 W.
rho_water == RInt(1)
g_standard == RInt(1)

\* load = Q/hpp.Q_n, for one timestep.
load_of(Q_t, pl) == RDiv(Q_t, pl.Q_n)

\* A variant of eta_turb_parameters without the plateau at full load.
eta_turb_parameters_no_plateau(load, tp) ==
    IF RLt(load, tp.load_min) THEN RInt(0)
    ELSE LET x == RSub(load, tp.load_min)
         IN  RDiv(x, RAdd(RAdd(tp.a1, RMul(tp.a2, x)), RMul(RMul(tp.a3, x), x)))

\* The value of eta_turb that output_from_parameters computes in a timestep
\* from the load and row 0 of hpp.turbine_parameters.
eta_turb_parameters(load, tp) ==
    IF RLt(load, tp.load_min) THEN RInt(0)
    ELSE IF RLe(RInt(1), load) THEN tp.eta_n
    ELSE LET x == RSub(load, tp.load_min)
         IN  RDiv(x, RAdd(RAdd(tp.a1, RMul(tp.a2, x)), RMul(RMul(tp.a3, x), x)))

\* A variant of timestep_power at the nominal head, whatever the water level.
timestep_power_nominal_head(eta_turb, Q_t, W_t, pl, rho, g) ==
    RMul(RMul(RMul(RMul(RMul(eta_turb, pl.eta_gen), g), rho),
              RMin(Q_t, pl.Q_n)), pl.H_n)

\* eta_turb * hpp.eta_gen * g * rho * min(Q[timestep], hpp.Q_n)
\*          * (hpp.H_n + hpp.W_n - W[timestep])
timestep_power(eta_turb, Q_t, W_t, pl, rho, g) ==
    RMul(RMul(RMul(RMul(RMul(eta_turb, pl.eta_gen), g), rho),
              RMin(Q_t, pl.Q_n)),
         RSub(RAdd(pl.H_n, pl.W_n), W_t))

\* The values eta_turb takes over the timesteps of output_from_parameters.
eta_turb_trace(Q, pl) ==
    [t \in 1..Len(Q) |->
        eta_turb_parameters(load_of(Q[t], pl), pl.turbine_parameters)]

\* output_from_parameters(Q, W, hpp, rho, g) for series Q and W over the same
\* index: the series of powers, or Raise when the plant has no nominal flow or
\* no turbine parameters, or when a timestep meets a missing H_n or W_n.
output_from_parameters(Q, W, pl, rho, g) ==
    IF pl.Q_n = None THEN Raise
    ELSE IF Len(Q) = 0 THEN Ok(<<>>)
    ELSE IF ~pl.turbine_parameters.given THEN Raise
    ELSE IF pl.H_n = None \/ pl.W_n = None THEN Raise
    ELSE Ok([t \in 1..Len(Q) |->
                timestep_power(eta_turb_trace(Q, pl)[t], Q[t], W[t], pl, rho, g)])

\* eta_turb = np.interp(load, hpp.eta_turb_values.index,
\*                      hpp.eta_turb_values.eta, left=0, right=0)
eta_turb_interp(Q, pl) ==
    [t \in 1..Len(Q) |->
        interp(load_of(Q[t], pl), pl.eta_turb_values.load,
               pl.eta_turb_values.eta, RInt(0), RInt(0))]

\* output_from_eta_values(Q, W, hpp, rho, g): the first timestep reads
\* eta_turb[load[timestep]], the array of interpolated efficiencies indexed
\* by the load, a float, which numpy refuses with an IndexError.  Only an
\* empty series comes back, as an empty series of powers.
output_from_eta_values(Q, W, pl, rho, g) ==
    IF pl.Q_n = None \/ ~pl.eta_turb_values.given THEN Raise
    ELSE IF Len(Q) = 0 THEN Ok(<<>>)
    ELSE Raise

\* Series of Steps timesteps; flows from -1 to MaxFlow m3/s and water levels
\* below, at and above the nominal level of the plants.
Steps == 2
MaxFlow == 6

RiverFlows == {RInt(k) : k \in (-1)..MaxFlow}
Levels == {RInt(1), RInt(2), RInt(5)}
FlowSeries == {<<>>} \cup [1..Steps -> RiverFlows]
LevelSeries(Q) == IF Len(Q) = 0 THEN {<<>>} ELSE [1..Steps -> Levels]

\* A row of turbine parameters whose minimum load is 0.
ZeroMinParams == Params("Pelton", RInt(0), R(1, 10), RInt(1), R(1, 20), R(9, 10))

\* A plant as the power functions read it.
OutputPlant(Q_n, H_n, W_n, eta_gen, eta_turb_values, turbine_parameters) ==
    [Q_n |-> Q_n, H_n |-> H_n, W_n |-> W_n, eta_gen |-> eta_gen,
     eta_turb_values |-> eta_turb_values,
     turbine_parameters |-> turbine_parameters]

\* Plants with a nominal flow of 4 m3/s, a nominal head of 2 m and a nominal
\* water level of 2 m or none.
ParameterPlants ==
    {OutputPlant(RInt(4), RInt(2), RInt(2), R(9, 10), NoCurve, tp) :
        tp \in {turbine_type_csv[1], turbine_type_csv[2], ZeroMinParams}}
    \cup {OutputPlant(RInt(4), RInt(2), None, R(9, 10), NoCurve, UserParams)}
CurvePlants ==
    {OutputPlant(RInt(4), RInt(2), W_n, R(9, 10), c, NoParams) :
        W_n \in WaterLevels, c \in {DefaultCurve, UserCurve}}

\* power_output.output_from_parameters(Q, W, hpp, rho, g)
RunFromParameters ==
    /\ probe = NoProbe
    /\ \E pl \in ParameterPlants, Q \in FlowSeries :
       \E W \in LevelSeries(Q) :
          probe' = [kind |-> "parameters", Q |-> Q, W |-> W, hpp |-> pl,
                    eta_turb |-> eta_turb_trace(Q, pl),
                    power_output |->
                        output_from_parameters(Q, W, pl, rho_water, g_standard)]
    /\ UNCHANGED plants

\* power_output.output_from_eta_values(Q, W, hpp, rho, g)
RunFromEtaValues ==
    /\ probe = NoProbe
    /\ \E pl \in CurvePlants, Q \in FlowSeries :
       \E W \in LevelSeries(Q) :
          probe' = [kind |-> "eta values", Q |-> Q, W |-> W, hpp |-> pl,
                    eta_turb |-> eta_turb_interp(Q, pl),
                    power_output |->
                        output_from_eta_values(Q, W, pl, rho_water, g_standard)]
    /\ UNCHANGED plants

NextOutput == RunFromParameters \/ RunFromEtaValues

SpecOutput == InitProbe /\ [][NextOutput]_vars

\* ------------------------------------------------------------------------
\* Modelchain.run_model
\* ------------------------------------------------------------------------
\* power_output.run(HPP, dV, file_turb_eff): the module power_output defines
\* output_from_eta_values and output_from_parameters only, so that the
\* attribute run is looked up in vain and the call raises an AttributeError
\* before its arguments are evaluated.
power_output_run(H, dV) == Raise

\* A variant of run_model that first takes the residual flow off the flow
\* series of the Modelchain object itself.
run_model_in_place(H, dV) ==
    LET r == power_output_run(H, SubEach(dV, H.dV_rest))
    IN  [HPP |-> IF r.ok THEN [H EXCEPT !.power_output = r.v] ELSE H,
         dV |-> SubEach(dV, H.dV_rest), ok |-> r.ok]

\* self.HPP.power_output = power_output.run(self.HPP,
\*     self.dV - self.HPP.dV_rest, self.file_turb_eff), on the plant H and the
\* flow series dV of a Modelchain object: the plant and the series after the
\* call, and whether the call returned.
run_model(H, dV) ==
    LET r == power_output_run(H, SubEach(dV, H.dV_rest))
    IN  [HPP |-> IF r.ok THEN [H EXCEPT !.power_output = r.v] ELSE H,
         dV |-> dV, ok |-> r.ok]

\* The flow series dV handed to Modelchain.
RunFlows == {<<RInt(4), RInt(12)>>, <<RInt(0), RInt(6)>>}

\* mc.run_model() on a Modelchain object mc, which exists once its
\* constructor has returned; probe counts the calls and keeps the plant and
\* the series as they were before the call.
RunModel ==
    /\ mc_pc = "resolved"
    /\ IF probe.kind = "run_model" THEN probe.runs < MaxRuns ELSE probe = NoProbe
    /\ \E dV \in RunFlows :
          LET r == run_model(HPP, dV)
          IN  /\ HPP' = r.HPP
              /\ probe' = [kind |-> "run_model",
                           runs |-> IF probe.kind = "run_model"
                                    THEN probe.runs + 1 ELSE 1,
                           dV |-> dV, dV_after |-> r.dV, ok |-> r.ok,
                           before |-> HPP]
    /\ UNCHANGED <<inp, mc_pc, mc_runs, hpp, mp_pc, mp_runs, plant, hp_pc,
                   hp_args, tab>>

NextRun == NewModelchain \/ RunModel

SpecRun == Init /\ [][NextRun]_vars

\* ------------------------------------------------------------------------
\* HydropowerPlant with any turbine type
\* ------------------------------------------------------------------------
\* Turbine types a caller may name: types of the table, the sentinel of the
\* classifier of Modelchain, a type without a row, and none.
LookupTypes == {"None", "Kaplan", "Francis", "dummy", "Pelton"}

\* HydropowerPlant(...) with a turbine type of LookupTypes: the arguments
\* and the plant and outcome of the constructor.
ConstructWithType ==
    /\ probe = NoProbe
    /\ \E turbine_type \in LookupTypes, P_n \in Powers, H_n \in Heads,
          Q_n \in Flows, W_n \in WaterLevels, eta_gen \in GenEffs,
          eta_turb_values \in {NoCurve, UserCurve},
          turbine_parameters \in {NoParams, UserParams}, files \in Files :
          probe' = [kind |-> "construct", turbine_type |-> turbine_type,
                    eta_turb_values |-> eta_turb_values,
                    turbine_parameters |-> turbine_parameters,
                    result |-> HydropowerPlant_init(P_n, eta_gen, 1, H_n, W_n,
                                   None, Q_n, turbine_type, eta_turb_values,
                                   turbine_parameters, files)]
    /\ UNCHANGED plants

NextLookup == ConstructWithType

SpecLookup == InitProbe /\ [][NextLookup]_vars

\* ------------------------------------------------------------------------
\* Polygons in tables with unused rows
\* ------------------------------------------------------------------------
\* A table column holds the vertices of a polygon followed by up to MaxPad
\* unused rows, which the loader fills with [NaN, NaN].
MaxPad == 2

IsVertex(p) == ~IsNaNPoint(p)
Padded(rows, n) == SelectSeq(rows, IsVertex) \o [j \in 1..n |-> NaNPoint]

\* The inner loop of the classifier on a padded column: the segments it
\* tests and the crossings it counts for the operating point A.
TestEdges ==
    /\ probe = NoProbe
    /\ \E k \in 1..Len(TestPolygons), n \in 0..MaxPad, A \in GridPoints :
          LET rows == Padded(TestPolygons[k].rows, n)
          IN  probe' = [kind |-> "edges", rows |-> rows, A |-> A,
                        edges |-> tested_edges(rows, 1),
                        intersections |-> count_intersections(A, rows, 1, 0)]
    /\ UNCHANGED plants

NextEdges == TestEdges

SpecEdges == InitProbe /\ [][NextEdges]_vars

\* ------------------------------------------------------------------------
\* estimate.eta_g_n_from_P_n
\* ------------------------------------------------------------------------
\* The table of lines 135-144 for a power P_n in W, in percent.
eta_g_n_table(P_n) ==
    IF RLt(P_n, RInt(1000)) THEN RInt(80)
    ELSE IF RLt(P_n, RInt(5000))
         THEN RAdd(RInt(80), RMul(RDiv(RSub(P_n, RInt(1000)), RInt(1000)), R(5, 4)))
    ELSE IF RLt(P_n, RInt(20000))
         THEN RAdd(RInt(85), RMul(RDiv(RSub(P_n, RInt(5000)), RInt(1000)), R(5, 15)))
    ELSE IF RLt(P_n, RInt(100000))
         THEN RAdd(RInt(90), RMul(RDiv(RSub(P_n, RInt(20000)), RInt(1000)), R(5, 80)))
    ELSE RInt(95)

\* eta_g_n_from_P_n(hpp): the body reads the name P_n, which is neither a
\* parameter nor a local nor a global of the module (the power is hpp.P_n),
\* so that the first comparison raises a NameError and hpp.eta_g_n is not
\* set.  bound tells whether the name P_n is bound where the body runs.
eta_g_n_from_P_n_bound(P, bound) ==
    IF ~bound THEN Raised(P)
    ELSE Returned([P EXCEPT !.eta_g_n = RDiv(eta_g_n_table(P.P_n), RInt(100))])

eta_g_n_from_P_n(P) == eta_g_n_from_P_n_bound(P, FALSE)

\* Nominal powers from 0 W in steps of 250 W.
MaxPowerStep == 480

NominalPowers == {RInt(250 * k) : k \in 0..MaxPowerStep}

\* eta_g_n_from_P_n(hpp) for a plant of nominal power P_n.
EvalGeneratorEfficiency ==
    /\ probe = NoProbe
    /\ \E P_n \in NominalPowers :
          probe' = [kind |-> "eta_g_n", P_n |-> P_n,
                    result |-> eta_g_n_from_P_n([P_n |-> P_n, eta_g_n |-> None])]
    /\ UNCHANGED plants

NextGenerator == EvalGeneratorEfficiency

SpecGenerator == InitProbe /\ [][NextGenerator]_vars

\* ------------------------------------------------------------------------
\* Two plant instances processed side by side
\* ------------------------------------------------------------------------
\* The state shared by all plants of a process is the pandas option
\* display.max_rows, which restructure_data sets and resets; its default:
MaxRowsDefault == 60
\* and a value the caller may have set before.
MaxRowsOptions == {MaxRowsDefault, 500}

\* The calls handed to the two workers: Modelchain(HPP, dV, dV_hist) for a
\* plant HPP, or HydropowerPlant(...) with a turbine type.
ModelchainJob(h_n, P_n, dV_n, dV_hist) ==
    [class |-> "Modelchain", dV_hist |-> dV_hist, step |-> "feasibility",
     st |-> [HPP |-> [dV_rest |-> None, dV_n |-> dV_n, P_n |-> P_n,
                      h_n |-> h_n, turb_type |-> "None", turb_num |-> 1,
                      power_output |-> None],
             pc |-> "running"]]
PlantJob(turbine_type) ==
    [class |-> "HydropowerPlant", turbine_type |-> turbine_type, step |-> "flow",
     st |-> hp_go([turbine_type |-> turbine_type, Q_n |-> RInt(4),
                   H_n |-> RInt(2), W_n |-> RInt(2), Q_rest |-> None,
                   eta_turb_values |-> NoCurve, turbine_parameters |-> NoParams,
                   eta_gen |-> R(9, 10), turb_num |-> 1, P_n |-> R(171, 25),
                   power_output |-> None])]
Jobs ==
    { ModelchainJob(RInt(2), None, None, Hist(<<RInt(4), R(73, 10), R(1, 10)>>, R(1, 10), R(1, 10))),
      ModelchainJob(None, R(171, 25), RInt(4), NoHist),
      ModelchainJob(RInt(2), None, None, NoHist),
      PlantJob("Kaplan"), PlantJob("Pelton") }

\* One statement of Modelchain.__init__, or the call of run_model after it.
mc_step_state(w) ==
    IF w.step = "feasibility"
    THEN IF check_feasibility(w.st.HPP, w.dV_hist) THEN w.st
         ELSE [w.st EXCEPT !.pc = "exit"]
    ELSE IF w.step = "dV_rest" THEN mc_set_dV_rest(w.st, w.dV_hist)
    ELSE IF w.step = "dV_n" THEN mc_set_dV_n(w.st, w.dV_hist)
    ELSE IF w.step = "P_n" THEN mc_set_P_n(w.st)
    ELSE IF w.step = "h_n" THEN mc_set_h_n(w.st)
    ELSE IF w.step = "turb_type" THEN mc_finish(mc_set_turb_type(w.st))
    ELSE IF w.st.pc = "resolved"
         THEN [w.st EXCEPT !.HPP = run_model(w.st.HPP, <<RInt(4), RInt(12)>>).HPP]
    ELSE w.st

mc_next_step(step) ==
    IF step = "feasibility" THEN "dV_rest"
    ELSE IF step = "dV_rest" THEN "dV_n"
    ELSE IF step = "dV_n" THEN "P_n"
    ELSE IF step = "P_n" THEN "h_n"
    ELSE IF step = "h_n" THEN "turb_type"
    ELSE IF step = "turb_type" THEN "run_model"
    ELSE "done"

\* restructure_data finds no row for the type of the plant.
lookup_fails(st) ==
    /\ st.pc = "running"
    /\ ~st.plant.eta_turb_values.given /\ ~st.plant.turbine_parameters.given
    /\ st.plant.turbine_type # "None"
    /\ \A k \in 1..Len(turbine_type_csv) : turbine_type_csv[k].type # st.plant.turbine_type

\* One statement of HydropowerPlant.__init__; the failing lookup in three:
\* pd.set_option('display.max_rows', len(df)), pd.reset_option(...) after
\* the types were logged, and sys.exit(...).
hp_step_state(w) ==
    IF w.step = "flow" THEN hp_nominal_flow(w.st, <<>>)
    ELSE IF w.step = "head" THEN hp_nominal_head(w.st)
    ELSE IF w.step = "type" THEN hp_turbine_type(w.st)
    ELSE IF w.step = "efficiency"
         THEN IF lookup_fails(w.st) THEN w.st ELSE hp_finish(hp_efficiency(w.st))
    ELSE IF w.step = "sys.exit" THEN hp_stop(w.st.plant, "exit")
    ELSE w.st

hp_next_step(w) ==
    IF w.step = "flow" THEN "head"
    ELSE IF w.step = "head" THEN "type"
    ELSE IF w.step = "type" THEN "efficiency"
    ELSE IF w.step = "efficiency"
         THEN IF lookup_fails(w.st) THEN "reset_option" ELSE "done"
    ELSE IF w.step = "reset_option" THEN "sys.exit"
    ELSE "done"

hp_step_max_rows(w, max_rows) ==
    IF w.step = "efficiency" /\ lookup_fails(w.st) THEN Len(turbine_type_csv)
    ELSE IF w.step = "reset_option" THEN MaxRowsDefault
    ELSE max_rows

\* Two jobs are handed to two workers of one process.
StartBatch ==
    /\ probe = NoProbe
    /\ \E j1 \in Jobs, j2 \in Jobs, m \in MaxRowsOptions :
          probe' = [kind |-> "batch", jobs |-> <<j1, j2>>, w |-> <<j1, j2>>,
                    max_rows |-> m, max_rows_before |-> m]
    /\ UNCHANGED plants

\* A worker on a Modelchain executes its next statement.
StepModelchain ==
    /\ probe.kind = "batch"
    /\ \E i \in 1..2 :
          /\ probe.w[i].class = "Modelchain" /\ probe.w[i].step # "done"
          /\ probe' = [probe EXCEPT
                 !.w[i] = [probe.w[i] EXCEPT !.st = mc_step_state(probe.w[i]),
                                             !.step = mc_next_step(probe.w[i].step)]]
    /\ UNCHANGED plants

\* A worker on a HydropowerPlant executes its next statement.
StepHydropowerPlant ==
    /\ probe.kind = "batch"
    /\ \E i \in 1..2 :
          /\ probe.w[i].class = "HydropowerPlant" /\ probe.w[i].step # "done"
          /\ probe' = [probe EXCEPT
                 !.w[i] = [probe.w[i] EXCEPT !.st = hp_step_state(probe.w[i]),
                                             !.step = hp_next_step(probe.w[i])],
                 !.max_rows = hp_step_max_rows(probe.w[i], probe.max_rows)]
    /\ UNCHANGED plants

NextBatch == StartBatch \/ StepModelchain \/ StepHydropowerPlant

SpecBatch == InitProbe /\ [][NextBatch]_vars

\* ------------------------------------------------------------------------
\* Properties
\* ------------------------------------------------------------------------
\* The five estimated parameters of each plant object and as supplied.
AllPresent(res, dV_n, P_n, h_n, type) ==
    res # None /\ dV_n # None /\ P_n # None /\ h_n # None /\ type # "None"

\* The feasibility predicate in the words of the specification.
SpecFeasible ==
    (Known(inp.h_n) /\ Known(inp.P_n))
    \/ ((Known(inp.h_n) \/ Known(inp.P_n))
        /\ (inp.dV_hist.given \/ Known(inp.dV_n)))

\* C1: for every combination of known/unknown head, power, nominal flow and
\* presence of a history, the feasibility check of either estimator passes
\* exactly when (h_n and P_n) or ((h_n or P_n) and (history or dV_n)).
C1_FeasibilityExact ==
    /\ mc_runs > 0 => ((mc_pc # "exit") <=> SpecFeasible)
    /\ mp_runs > 0 => ((mp_pc # "insufficient") <=> SpecFeasible)

C1_Witness ==
    /\ mc_pc = "exit" /\ mp_pc = "insufficient"
    /\ Known(inp.h_n) /\ ~Known(inp.P_n) /\ ~Known(inp.dV_n)

\* C2: when the feasibility predicate is false, estimation fails before any
\* derivation runs and the plant's parameter set is the one supplied.
C2_NoWriteWhenInfeasible ==
    /\ (mc_runs > 0 /\ ~SpecFeasible) =>
          /\ mc_pc = "exit"
          /\ HPP.dV_rest = inp.dV_rest /\ HPP.dV_n = inp.dV_n
          /\ HPP.P_n = inp.P_n /\ HPP.h_n = inp.h_n
          /\ HPP.turb_type = inp.turb_type
    /\ (mp_runs > 0 /\ ~SpecFeasible) =>
          /\ mp_pc = "insufficient"
          /\ hpp.dV_res = inp.dV_rest /\ hpp.dV_n = inp.dV_n
          /\ hpp.P_n = inp.P_n /\ hpp.h_n = inp.h_n
          /\ hpp.turb_type = inp.turb_type

C2_Witness ==
    /\ mc_runs > 0 /\ mp_runs > 0 /\ ~SpecFeasible
    /\ inp.dV_rest = None /\ inp.turb_type = "None" /\ inp.dV_hist.given

\* C3: once an estimator has run on a feasible plant, residual flow, nominal
\* flow, nominal power, nominal head and turbine type are all present.
C3_AllPresentWhenResolved ==
    /\ mc_pc = "resolved" =>
          AllPresent(HPP.dV_rest, HPP.dV_n, HPP.P_n, HPP.h_n, HPP.turb_type)
    /\ mp_pc = "resolved" =>
          AllPresent(hpp.dV_res, hpp.dV_n, hpp.P_n, hpp.h_n, hpp.turb_type)

\* C4: running an estimator again on a plant whose parameters are all
\* resolved leaves every parameter as it was.
C4_Idempotent ==
    [][ /\ (mc_pc = "resolved"
            /\ AllPresent(HPP.dV_rest, HPP.dV_n, HPP.P_n, HPP.h_n, HPP.turb_type))
           => (HPP' = HPP /\ mc_pc' = "resolved")
        /\ (mp_pc = "resolved"
            /\ AllPresent(hpp.dV_res, hpp.dV_n, hpp.P_n, hpp.h_n, hpp.turb_type))
           => (hpp' = hpp /\ mp_pc' = "resolved") ]_vars

C4_Witness ==
    /\ mc_runs = 2 /\ mc_pc = "resolved"
    /\ AllPresent(HPP.dV_rest, HPP.dV_n, HPP.P_n, HPP.h_n, HPP.turb_type)
    /\ mp_runs = 2 /\ mp_pc = "resolved"
    /\ AllPresent(hpp.dV_res, hpp.dV_n, hpp.P_n, hpp.h_n, hpp.turb_type)
    /\ inp.dV_n = None

\* C5: every parameter the user supplied keeps exactly the supplied value
\* through estimation (Modelchain) and construction (HydropowerPlant).
C5_SuppliedKept ==
    /\ mc_runs > 0 =>
          /\ Known(inp.dV_rest) => HPP.dV_rest = inp.dV_rest
          /\ Known(inp.dV_n) => HPP.dV_n = inp.dV_n
          /\ Known(inp.P_n) => HPP.P_n = inp.P_n
          /\ Known(inp.h_n) => HPP.h_n = inp.h_n
          /\ inp.turb_type # "None" => HPP.turb_type = inp.turb_type
    /\ hp_pc # "new" =>
          /\ Known(inp.dV_rest) => plant.Q_rest = inp.dV_rest
          /\ Known(inp.dV_n) => plant.Q_n = inp.dV_n
          /\ Known(inp.P_n) => plant.P_n = inp.P_n
          /\ Known(inp.h_n) => plant.H_n = inp.h_n
          /\ inp.turb_type # "None" => plant.turbine_type = inp.turb_type

\* C6: when residual flow is not supplied and no history is given, estimation
\* resolves the residual flow to 0.
C6_ResidualDefaultsToZero ==
    /\ (mc_pc = "resolved" /\ inp.dV_rest = None /\ ~inp.dV_hist.given)
          => HPP.dV_rest = RInt(0)
    /\ (mp_pc = "resolved" /\ inp.dV_rest = None /\ ~inp.dV_hist.given)
          => hpp.dV_res = RInt(0)

\* The residual-flow table in the words of the specification.
ClaimResidual(x) ==
    IF RLe(x, R(6, 100)) THEN R(5, 100)
    ELSE IF RLe(x, R(16, 100))
        THEN RAdd(R(5, 100), RMul(RSub(x, R(6, 100)), R(8, 10)))
    ELSE IF RLe(x, R(5, 10))
        THEN RAdd(R(13, 100), RMul(RSub(x, R(16, 100)), R(44, 100)))
    ELSE IF RLe(x, R(25, 10))
        THEN RAdd(R(28, 100), RMul(RSub(x, R(5, 10)), R(31, 100)))
    ELSE IF RLe(x, RInt(10))
        THEN RAdd(R(9, 10), RMul(RSub(x, R(25, 10)), R(213, 1000)))
    ELSE IF RLe(x, RInt(60))
        THEN RAdd(R(25, 10), RMul(RSub(x, RInt(10)), R(15, 100)))
    ELSE RInt(10)

\* C7: for every 347-day flow value x, the residual flow an estimator writes
\* is the seven-segment table value for x (0.05 up to 0.06, linear pieces up
\* to 0.16, 0.5, 2.5, 10 and 60, and 10 above 60).
C7_ResidualTable ==
    /\ (inp.dV_rest = None /\ inp.dV_hist.given /\ Known(HPP.dV_rest))
          => HPP.dV_rest = ClaimResidual(dV_347_loc(inp.dV_hist))
    /\ (inp.dV_rest = None /\ hpp.dV_hist.given /\ Known(hpp.dV_res))
          => hpp.dV_res = ClaimResidual(dV_347_quantile(hpp.dV_hist))

\* The largest step across a breakpoint that counts as continuous, in m3/s.
Epsilon == R(1, 100)

Near(a, b) == RLt(RSub(a, b), Epsilon) /\ RLt(RSub(b, a), Epsilon)

\* C8: at each of the six breakpoints the residual-flow mapping is continuous:
\* its values just below and just above the breakpoint differ by less than a
\* small epsilon.
C8_ContinuousAtBreakpoints ==
    tab # NoTab =>
       /\ Near(tab.res_below, tab.res_above)
       /\ Near(tab.rest_below, tab.rest_above)

\* The nominal flow in the words of the specification.
ClaimNominalFlow(h_n, P_n, dV_hist, dV_res) ==
    IF Known(h_n) /\ Known(P_n)
    THEN RDiv(P_n, RMul(RMul(RMul(h_n, g_rho), R(9, 10)), R(95, 100)))
    ELSE LET fdc == SubEach(SortDesc(dV_hist.dV), dV_res)
         IN  interp(RInt(20), linspace_0_100(Len(fdc)), fdc, fdc[1], fdc[Len(fdc)])

\* C9: a missing nominal flow is derived as P_n / (h_n * 9.81 * 1000 * 0.9 *
\* 0.95) when head and power are known, and otherwise by interpolating, at
\* percentile 20, the history minus the residual flow sorted in descending
\* order over percentiles running from 0 for the first value to 100 for the
\* last.
C9_NominalFlow ==
    /\ (mc_pc = "resolved" /\ inp.dV_n = None) =>
          HPP.dV_n = ClaimNominalFlow(inp.h_n, inp.P_n, inp.dV_hist, HPP.dV_rest)
    /\ (mp_pc = "resolved" /\ inp.dV_n = None) =>
          hpp.dV_n = ClaimNominalFlow(inp.h_n, inp.P_n, hpp.dV_hist, hpp.dV_res)

\* The characteristic equation with the fixed nominal efficiencies.
CharacteristicFixed(P_n, h_n, dV_n) ==
    P_n = RMul(RMul(RMul(RMul(h_n, dV_n), g_rho), R(95, 100)), R(9, 10))

\* C10: whenever head, power or nominal flow is derived from the
\* characteristic equation, the result satisfies it with generator efficiency
\* 0.95 and turbine efficiency 0.9, whatever the plant's eta_gen is.
C10_FixedEfficiencies ==
    /\ (mc_pc = "resolved"
        /\ (inp.P_n = None \/ inp.h_n = None \/ inp.dV_n = None))
          => CharacteristicFixed(HPP.P_n, HPP.h_n, HPP.dV_n)
    /\ (mp_pc = "resolved" /\ Known(hpp.P_n) /\ Known(hpp.h_n)
        /\ inp.dV_n = None)
          => CharacteristicFixed(hpp.P_n, hpp.h_n, hpp.dV_n)
    /\ (hp_pc = "constructed"
        /\ ((inp.h_n = None /\ Known(inp.P_n) /\ Known(inp.dV_n))
            \/ (inp.dV_n = None /\ Known(inp.P_n) /\ Known(inp.h_n))))
          => CharacteristicFixed(plant.P_n, plant.H_n, plant.Q_n)

\* C11: for every head and nominal flow, the power derived from them gives
\* back the head when the head is derived from that power and the flow, and
\* gives back the flow when the flow is derived from that power and the head.
C11_RoundTrip ==
    probe.kind = "round trip" =>
       /\ probe.mc_h_n = Ok(probe.h_n)
       /\ probe.mc_dV_n = Ok(probe.dV_n)
       /\ probe.mp_h_n.ok /\ probe.mp_h_n.hpp.h_n = probe.h_n

\* The types of the reference table whose polygon the point A crosses an odd
\* number of times, by their position in the table.
OddTypes(A) ==
    {t \in 1..Len(charac_diagrams) :
        count_intersections(A, charac_diagrams[t].rows, 1, 0) % 2 = 1}

\* The type the specification assigns to the point A.
ClaimType(A) ==
    IF OddTypes(A) = {} THEN "dummy"
    ELSE charac_diagrams[CHOOSE t \in OddTypes(A) : \A u \in OddTypes(A) : t <= u].type

\* C12: a missing turbine type is the first type of the reference table, in
\* table order, whose polygon has an odd crossing count at (nominal flow /
\* turbine count, head), also when a later polygon has one too; when no
\* polygon has an odd count the type is "dummy" and nothing fails.
C12_FirstOddTypeOrDummy ==
    /\ (mc_pc = "resolved" /\ inp.turb_type = "None")
          => HPP.turb_type = ClaimType(<<RDiv(HPP.dV_n, RInt(HPP.turb_num)), HPP.h_n>>)
    /\ (mp_pc = "resolved" /\ inp.turb_type = "None")
          => hpp.turb_type = ClaimType(<<RDiv(hpp.dV_n, RInt(hpp.turb_num)), hpp.h_n>>)
    /\ (hp_pc # "new" /\ inp.turb_type = "None" /\ Known(plant.Q_n) /\ Known(plant.H_n))
          => /\ hp_pc # "exit"
             /\ plant.turbine_type = ClaimType(<<RDiv(plant.Q_n, RInt(plant.turb_num)), plant.H_n>>)

\* Twice the signed area of the triangle O, P, Q.
Cross(O, P, Q) ==
    RSub(RMul(RSub(P[1], O[1]), RSub(Q[2], O[2])),
         RMul(RSub(P[2], O[2]), RSub(Q[1], O[1])))

Sign(r) == IF r[1] > 0 THEN 1 ELSE IF r[1] < 0 THEN -1 ELSE 0

\* A lies in the closed triangle T.
InTriangle(A, T) ==
    LET s == {Sign(Cross(T[1], T[2], A)), Sign(Cross(T[2], T[3], A)),
              Sign(Cross(T[3], T[1], A))}
    IN  ~(1 \in s /\ -1 \in s)

\* A lies on the closed segment from P to Q.
OnSegment(A, P, Q) ==
    /\ Sign(Cross(P, Q, A)) = 0
    /\ RLe(RMin(P[1], Q[1]), A[1]) /\ RLe(A[1], RMax(P[1], Q[1]))
    /\ RLe(RMin(P[2], Q[2]), A[2]) /\ RLe(A[2], RMax(P[2], Q[2]))

Vertices(rows) == SelectSeq(rows, LAMBDA v : ~IsNaNPoint(v))

OnBoundary(A, rows) ==
    LET v == Vertices(rows)
    IN  \E i \in 1..Len(v) : OnSegment(A, v[i], v[(i % Len(v)) + 1])

Inside(A, polygon) ==
    /\ ~OnBoundary(A, polygon.rows)
    /\ \E T \in polygon.pieces : InTriangle(A, T)

\* C13: for a simple polygon and an operating point not on its boundary, the
\* crossing count of the classifier is odd exactly when the point lies inside
\* the polygon, also when the horizontal ray through the point passes through
\* a vertex of the polygon.
C13_OddIffInside ==
    (probe.kind = "count" /\ ~OnBoundary(probe.A, TestPolygons[probe.polygon].rows))
       => ((probe.intersections % 2 = 1)
              <=> Inside(probe.A, TestPolygons[probe.polygon]))

\* C14 as stated: with the operating point on a vertex shared by two adjacent
\* edges, the two edges together contribute exactly one crossing.
C14_VertexCountsOnce ==
    probe.kind = "vertex" => probe.intersections = 1

\* C14: with the operating point on a vertex shared by two adjacent edges,
\* the two edges together contribute exactly one crossing when the edge that
\* starts at the vertex is not horizontal, and none when it is horizontal;
\* never two.
C14_VertexCountsOnceUnlessHorizontal ==
    probe.kind = "vertex" =>
       probe.intersections = (IF probe.W[2] = probe.V[2] THEN 0 ELSE 1)

C14_Witness ==
    /\ probe.kind = "vertex"
    /\ probe.U[2] # probe.V[2] /\ probe.W[2] # probe.V[2]
    /\ probe.intersections = 1

\* The half-line from A in the +x direction meets the segment from B to C,
\* B included and C excluded.
CrossesRay(A, B, C) ==
    /\ B # C
    /\ B[2] # C[2]
    /\ LET t == RDiv(RSub(A[2], B[2]), RSub(C[2], B[2]))
       IN  /\ RLe(RInt(0), t) /\ RLt(t, RInt(1))
           /\ RLe(A[1], RAdd(B[1], RMul(t, RSub(C[1], B[1]))))

\* C15: intersec(A, B, C) is true exactly when the horizontal half-line from
\* A in the +x direction crosses the half-open segment [B, C): B counts when
\* it is on the half-line, C never counts, and a segment that is a point or
\* horizontal never counts.
C15_IntersecIsRayCrossing ==
    probe.kind = "intersec" =>
       (probe.crossed <=> CrossesRay(probe.A, probe.B, probe.C))

\* The turbine efficiency of the characteristic-equation mode as stated:
\* 0 below the minimum load, the nominal efficiency of the type from full
\* load on, and the quotient of the characteristic equation in between.
ClaimEtaTurb(load, tp) ==
    IF RLt(load, tp.load_min) THEN RInt(0)
    ELSE IF ~RLt(load, RInt(1)) THEN tp.eta_n
    ELSE RDiv(RSub(load, tp.load_min),
              RAdd(tp.a1,
                   RAdd(RMul(tp.a2, RSub(load, tp.load_min)),
                        RMul(tp.a3, RMul(RSub(load, tp.load_min),
                                         RSub(load, tp.load_min))))))

\* A run of output_from_parameters that returned its series of powers.
ParametersRun == probe.kind = "parameters" /\ probe.power_output.ok

EtaTurbAsClaimed ==
    \A t \in 1..Len(probe.Q) :
        probe.eta_turb[t] =
            ClaimEtaTurb(RDiv(probe.Q[t], probe.hpp.Q_n), probe.hpp.turbine_parameters)

\* Nominal efficiency x generator efficiency x 9.81 x 1000 x Q_n x head.
NominalPower(pl, head) ==
    RMul(RMul(RMul(RMul(pl.turbine_parameters.eta_n, pl.eta_gen), g_rho), pl.Q_n), head)

ClaimEtaGen(load, eta) ==
    IF RLt(load, R(1, 10)) THEN RMul(R(85, 100), eta)
    ELSE IF RLt(load, R(1, 4))
         THEN RMul(RAdd(R(85, 100), RMul(RSub(load, R(1, 10)), R(667, 1000))), eta)
    ELSE IF RLt(load, R(1, 2))
         THEN RMul(RAdd(R(95, 100), RMul(RSub(load, R(1, 4)), R(1, 5))), eta)
    ELSE eta

OutputRun ==
    /\ probe.kind \in {"parameters", "eta values"}
    /\ Len(probe.Q) > 0
    /\ Known(probe.hpp.W_n)

\* C18: whatever the plant and the series, also where the water level
\* exceeds H_n + W_n, the power of every timestep of a computed series is
\* not negative.
C18_PowerNonNegative ==
    (OutputRun /\ probe.power_output.ok) =>
        \A t \in 1..Len(probe.Q) : RLe(RInt(0), probe.power_output.v[t])

\* C19: in both modes a series of powers is computed, and two timesteps
\* with flows of at least Q_n at the same water level have the same power.
C19_FlatAboveNominalFlow ==
    OutputRun =>
        /\ probe.power_output.ok
        /\ \A t1, t2 \in 1..Len(probe.Q) :
              (/\ RLe(probe.hpp.Q_n, probe.Q[t1])
               /\ RLe(probe.hpp.Q_n, probe.Q[t2])
               /\ probe.W[t1] = probe.W[t2]) =>
                  probe.power_output.v[t1] = probe.power_output.v[t2]

\* C20: in both modes a series of powers is computed and is exactly 0 at
\* every timestep whose flow is 0; in the characteristic-equation mode it is
\* exactly 0 at every timestep whose load is below load_min, for every row
\* of turbine parameters, also one with load_min = 0.
C20_ZeroFlowZeroPower ==
    OutputRun =>
        /\ probe.power_output.ok
        /\ \A t \in 1..Len(probe.Q) :
              (\/ probe.Q[t] = RInt(0)
               \/ /\ probe.kind = "parameters"
                  /\ RLt(RDiv(probe.Q[t], probe.hpp.Q_n),
                         probe.hpp.turbine_parameters.load_min)) =>
                  probe.power_output.v[t] = RInt(0)

\* C21: in every state of a plant object at most one of the explicit
\* efficiency curve eta_turb_values and the characteristic-equation
\* parameters turbine_parameters is populated, whatever the constructor
\* arguments.
C21_OneEfficiencySource ==
    hp_pc # "new" =>
        ~(plant.eta_turb_values.given /\ plant.turbine_parameters.given)

\* A parameter that is known before a step is known after it.
StaysKnown(before, after) ==
    /\ Known(before.dV_rest) => Known(after.dV_rest)
    /\ Known(before.dV_n) => Known(after.dV_n)
    /\ Known(before.P_n) => Known(after.P_n)
    /\ Known(before.h_n) => Known(after.h_n)
    /\ before.turb_type # "None" => after.turb_type # "None"

C23_RunIdempotent ==
    [][ (probe'.kind = "run_model" /\ probe' # probe) =>
            /\ probe'.ok
            /\ (probe.kind = "run_model" /\ probe.dV = probe'.dV) =>
                   HPP'.power_output = HPP.power_output ]_vars

TableTypes == {turbine_type_csv[k].type : k \in 1..Len(turbine_type_csv)}

\* C25: a constructor that has to look up the efficiency parameters of a
\* turbine type (neither a curve nor parameters were supplied) and finds no
\* row for it in the table, also for the type "dummy", exits with an
\* error and leaves the plant without parameters and without a curve.
C25_UnknownTypeIsFatal ==
    (/\ probe.kind = "construct"
     /\ ~probe.eta_turb_values.given /\ ~probe.turbine_parameters.given
     /\ probe.result.pc \notin {"raised"}
     /\ probe.result.plant.turbine_type \notin TableTypes) =>
        /\ probe.result.pc = "exit"
        /\ ~probe.result.plant.turbine_parameters.given
        /\ ~probe.result.plant.eta_turb_values.given

\* The constructor was given the type "dummy" and complete nominal values,
\* so that the lookup of the parameters is the first thing that can fail.
C25_Witness ==
    /\ probe.kind = "construct"
    /\ probe.turbine_type = "dummy"
    /\ ~probe.eta_turb_values.given /\ ~probe.turbine_parameters.given
    /\ Known(probe.result.plant.Q_n) /\ Known(probe.result.plant.W_n)
    /\ Known(probe.result.plant.H_n)
    /\ probe.result.pc = "exit"

\* The boundary edges of the polygon with the vertices V, in order: vertex j
\* to vertex j + 1 and the last vertex back to the first.
BoundaryEdges(V) == [j \in 1..Len(V) |-> <<V[j], V[(j % Len(V)) + 1]>>]

\* C27: for a polygon of k vertices in a column of n >= k rows padded with
\* NaN the classifier tests exactly the k boundary edges, each once, and
\* counts the crossings of these edges only.
C27_ExactlyTheBoundaryEdges ==
    probe.kind = "edges" =>
        LET V == SelectSeq(probe.rows, IsVertex)
        IN  /\ probe.edges = BoundaryEdges(V)
            /\ probe.intersections =
                   Cardinality({j \in 1..Len(V) :
                       intersec(probe.A, BoundaryEdges(V)[j][1], BoundaryEdges(V)[j][2])})

\* A polygon of five vertices followed by two unused rows, with a point
\* whose half-line crosses the boundary.
C27_Witness ==
    /\ probe.kind = "edges"
    /\ Len(probe.rows) = 7 /\ Len(probe.edges) = 5
    /\ probe.intersections = 1

\* C28: for every nominal power P_n >= 0 eta_g_n_from_P_n sets the nominal
\* generator efficiency of the plant to the value of the table with the
\* breakpoints 1000, 5000, 20000 and 100000 W, a value between 0.80 and 0.95.
C28_GeneratorEfficiencyTable ==
    probe.kind = "eta_g_n" =>
        /\ probe.result.ok
        /\ probe.result.hpp.eta_g_n = RDiv(eta_g_n_table(probe.P_n), RInt(100))
        /\ RLe(R(80, 100), probe.result.hpp.eta_g_n)
        /\ RLe(probe.result.hpp.eta_g_n, R(95, 100))

\* C29: whenever an estimator has resolved a plant, its nominal flow dV_n is
\* strictly positive, also when it was read from the flow-duration curve
\* after the residual flow was taken off.
C29_NominalFlowPositive ==
    /\ mc_pc = "resolved" => (Known(HPP.dV_n) /\ RLt(RInt(0), HPP.dV_n))
    /\ mp_pc = "resolved" => (Known(hpp.dV_n) /\ RLt(RInt(0), hpp.dV_n))

\* C30: for the same plant parameters and the same history the two
\* estimators agree: Modelchain(...) and missing_parameters(...) both fail,
\* or both leave the plant with the same residual flow, nominal flow,
\* nominal power, nominal head and turbine type.
C30_EstimatorsAgree ==
    (mc_runs > 0 /\ mp_runs > 0 /\ hpp.dV_hist = inp.dV_hist) =>
        /\ mc_pc = "resolved" <=> mp_pc = "resolved"
        /\ mc_pc = "resolved" =>
              /\ HPP.dV_rest = hpp.dV_res /\ HPP.dV_n = hpp.dV_n
              /\ HPP.P_n = hpp.P_n /\ HPP.h_n = hpp.h_n
              /\ HPP.turb_type = hpp.turb_type

\* What a job gives when it is processed alone, in one piece.
Alone(j) ==
    IF j.class = "Modelchain"
    THEN Modelchain_init(j.st.HPP, j.dV_hist)
    ELSE HydropowerPlant_init(j.st.plant.P_n, j.st.plant.eta_gen,
             j.st.plant.turb_num, j.st.plant.H_n, j.st.plant.W_n,
             j.st.plant.Q_rest, j.st.plant.Q_n, j.st.plant.turbine_type,
             j.st.plant.eta_turb_values, j.st.plant.turbine_parameters, <<>>)

\* C26: under every interleaving of the steps of two plant instances each
\* plant ends with the parameters and the outcome it gets when processed
\* alone, and no step writes state shared by the plants: the pandas option
\* display.max_rows keeps the value it had.
C26_PlantsIndependent ==
    probe.kind = "batch" =>
        /\ \A i \in 1..2 :
              probe.w[i].step = "done" => probe.w[i].st = Alone(probe.jobs[i])
        /\ probe.max_rows = probe.max_rows_before

====
